---------------------------- MODULE Spec2Model ----------------------------
(***************************************************************************)
(* Movie Explorer: the catalog client and the formatting helpers           *)
(* (src/services/api.js), the List View (src/pages/Home.jsx,               *)
(* src/components/SearchBar.jsx) and the Detail View                       *)
(* (src/pages/MovieDetail.jsx).                                            *)
(*                                                                         *)
(* Strings are sequences of one-character strings, so that trim,           *)
(* toLowerCase, includes and parseInt are computed as JavaScript computes  *)
(* them.  Time is counted in milliseconds.                                 *)
(***************************************************************************)
EXTENDS Integers, Sequences, FiniteSets, TLC

VARIABLES
    apiKey,        \* api.js:13     API_KEY
    inflight,      \* calls of the client that have not yet resumed their caller, oldest first
    settled,       \* the call that resumed its caller last, with what it gave
    mounted,       \* Home: "no" before the first effects, "yes", "gone" after unmount
    movies,        \* Home.jsx:33   useState([])
    searchQuery,   \* Home.jsx:34   useState('')
    loading,       \* Home.jsx:35   useState(true)
    error,         \* Home.jsx:36   useState(null)
    isSearching,   \* Home.jsx:37   useState(false)
    timers,        \* Home.jsx:55   the timeouts set and neither expired nor cleared
    cleanupId,     \* Home.jsx:60   the timeout the effect's cleanup clears, 0 if none
    now,           \* milliseconds since the last text change, up to the debounce delay
    burst,         \* history: the current burst of text changes and its search requests
    detail,        \* MovieDetail.jsx:26-32  the route id and the state of the Detail View
    helper         \* a call of a formatting helper: its arguments and what it returned

client == <<apiKey, inflight, settled>>
view == <<mounted, movies, searchQuery, loading, error, isSearching, timers, cleanupId, now, burst>>
vars == <<client, view, detail, helper>>

---------------------------------------------------------------------------
(* Bounds *)

MaxQueryLen == 3        \* queries typed from QueryAlphabet
MaxIdLen == 2           \* route ids typed from IdAlphabet
MaxChanges == 3         \* text changes in one burst
MaxSearches == 2        \* search requests in one burst
MaxInflight == 2        \* calls of Home in flight at a time

---------------------------------------------------------------------------
(* api.js: configuration and the fallback dataset *)

Placeholder == <<"YOUR_TMDB_API_KEY">>
KeyUnset == <<"undefined">>                         \* the environment variable is not set
KeyReal == <<"a1b2c3d4e5f6g7h8i9j0k1l2m3n4o5p6">>
ApiKeys == {Placeholder, KeyUnset, KeyReal}

DUMMY_MOVIES == <<
    [id |-> 1, title |-> "The Shawshank Redemption"],
    [id |-> 2, title |-> "The Godfather"],
    [id |-> 3, title |-> "The Dark Knight"],
    [id |-> 4, title |-> "Pulp Fiction"],
    [id |-> 5, title |-> "Forrest Gump"],
    [id |-> 6, title |-> "Inception"]
>>

\* what the remote catalog answers with when it answers well
LiveMovie == [id |-> 550, title |-> "Fight Club"]
LiveLists == {<<LiveMovie>>}

---------------------------------------------------------------------------
(* JavaScript string functions *)

Whitespace == {" ", "\t", "\n"}

UpperChars == <<"A","B","C","D","E","F","G","H","I","J","K","L","M",
                "N","O","P","Q","R","S","T","U","V","W","X","Y","Z">>
LowerChars == <<"a","b","c","d","e","f","g","h","i","j","k","l","m",
                "n","o","p","q","r","s","t","u","v","w","x","y","z">>

UpperToLower ==
    [c \in {UpperChars[i] : i \in 1..26} |-> LowerChars[CHOOSE i \in 1..26 : UpperChars[i] = c]]

ToLowerChar(c) == IF c \in DOMAIN UpperToLower THEN UpperToLower[c] ELSE c

ToLowerCase(s) == [i \in 1..Len(s) |-> ToLowerChar(s[i])]

RECURSIVE TrimStart(_)
TrimStart(s) ==
    IF s # <<>> /\ Head(s) \in Whitespace THEN TrimStart(Tail(s)) ELSE s

RECURSIVE TrimEnd(_)
TrimEnd(s) ==
    IF s # <<>> /\ s[Len(s)] \in Whitespace
    THEN TrimEnd(SubSeq(s, 1, Len(s) - 1))
    ELSE s

Trim(s) == TrimEnd(TrimStart(s))

Includes(s, sub) ==
    \E i \in 0..(Len(s) - Len(sub)) : \A j \in 1..Len(sub) : s[i + j] = sub[j]

\* the characters of the titles
Chars(title) ==
    CASE title = "The Shawshank Redemption" ->
            <<"T","h","e"," ","S","h","a","w","s","h","a","n","k"," ","R","e","d","e","m","p","t","i","o","n">>
      [] title = "The Godfather" ->
            <<"T","h","e"," ","G","o","d","f","a","t","h","e","r">>
      [] title = "The Dark Knight" ->
            <<"T","h","e"," ","D","a","r","k"," ","K","n","i","g","h","t">>
      [] title = "Pulp Fiction" ->
            <<"P","u","l","p"," ","F","i","c","t","i","o","n">>
      [] title = "Forrest Gump" ->
            <<"F","o","r","r","e","s","t"," ","G","u","m","p">>
      [] title = "Inception" ->
            <<"I","n","c","e","p","t","i","o","n">>
      [] title = "Fight Club" ->
            <<"F","i","g","h","t"," ","C","l","u","b">>

(* parseInt(string) with no radix: leading white space is skipped, a sign  *)
(* is read, "0x"/"0X" selects radix 16, the longest prefix of digits is    *)
(* converted and what follows is ignored; no digit at all gives NaN.       *)
DecDigits == <<"0","1","2","3","4","5","6","7","8","9">>
HexDigits == DecDigits \o <<"a","b","c","d","e","f">>

DigitValue(c, digits) ==
    IF \E i \in 1..Len(digits) : digits[i] = ToLowerChar(c)
    THEN (CHOOSE i \in 1..Len(digits) : digits[i] = ToLowerChar(c)) - 1
    ELSE -1

RECURSIVE DigitPrefix(_, _)
DigitPrefix(s, digits) ==
    IF s # <<>> /\ DigitValue(Head(s), digits) >= 0
    THEN <<Head(s)>> \o DigitPrefix(Tail(s), digits)
    ELSE <<>>

RECURSIVE DigitsToInt(_, _)
DigitsToInt(ds, digits) ==
    IF ds = <<>> THEN 0
    ELSE DigitsToInt(SubSeq(ds, 1, Len(ds) - 1), digits) * Len(digits)
         + DigitValue(ds[Len(ds)], digits)

NaN == [nan |-> TRUE, val |-> 0]

ParseInt(str) ==
    LET s == TrimStart(str)
        signed == s # <<>> /\ Head(s) \in {"+", "-"}
        sign == IF s # <<>> /\ Head(s) = "-" THEN -1 ELSE 1
        body == IF signed THEN Tail(s) ELSE s
        hex == Len(body) >= 2 /\ body[1] = "0" /\ body[2] \in {"x", "X"}
        digits == IF hex THEN HexDigits ELSE DecDigits
        ds == DigitPrefix(IF hex THEN SubSeq(body, 3, Len(body)) ELSE body, digits)
    IN  IF ds = <<>> THEN NaN
        ELSE [nan |-> FALSE, val |-> sign * DigitsToInt(ds, digits)]

---------------------------------------------------------------------------
(* Inputs *)

RECURSIVE SeqsUpTo(_, _)
SeqsUpTo(S, n) ==
    IF n = 0 THEN {<<>>}
    ELSE LET shorter == SeqsUpTo(S, n - 1)
         IN  shorter \cup {Append(s, c) : s \in shorter, c \in S}

QueryAlphabet == {" ", "i", "I", "n", "t", "e"}
SampleQueries == {
    <<"i","n","c","e","p","t","i","o","n">>,
    <<"I","N","C","E","P","T","I","O","N">>,
    <<"t","h","e"," ">>,
    <<" ","i","n","c","e","p","t","i","o","n">>,
    <<"\t","\n">>,
    <<"z","z">> }
Queries == SeqsUpTo(QueryAlphabet, MaxQueryLen) \cup SampleQueries

IdAlphabet == {"1", "6", "7", "0", "x", "-", " ", "a"}
SampleIds == {<<"0","x","6">>, <<"0","0","3">>, <<" ","2","a">>, <<"-","0","x","1">>, <<"5",".","9">>}
MovieIds == SeqsUpTo(IdAlphabet, MaxIdLen) \cup SampleIds

\* Home.jsx:109-111  the texts typed into the search box
ViewTexts == {<<>>, <<" ">>, <<"i","n">>, <<"t","h","e">>}

---------------------------------------------------------------------------
(* Values a call of the client resolves with *)

ListOf(ms) == [kind |-> "list", items |-> ms]
DetailOf(m) == [kind |-> "detail", items |-> <<m>>]
Undefined == [kind |-> "undefined", items |-> <<>>]      \* data.results of a payload without results
Malformed == [kind |-> "malformed", items |-> <<>>]      \* a payload that is no movie record
Rejected == [kind |-> "rejected", items |-> <<>>]        \* the promise rejects

\* the filter without toLowerCase
FilterDummyCaseSensitive(query) ==
    LET Matches(m) == Includes(Chars(m.title), query)
    IN  SelectSeq(DUMMY_MOVIES, Matches)

\* movie.title.toLowerCase() of each record of the dataset
LowerTitle ==
    [title \in {DUMMY_MOVIES[k].title : k \in 1..Len(DUMMY_MOVIES)} |-> ToLowerCase(Chars(title))]

\* DUMMY_MOVIES.filter(movie => movie.title.toLowerCase().includes(query.toLowerCase()))
FilterTitles(query) ==
    LET lowered == ToLowerCase(query)
        Matches(m) == Includes(LowerTitle[m.title], lowered)
    IN  SelectSeq(DUMMY_MOVIES, Matches)

\* the filter of each query that is typed, computed once
Filtered == [query \in Queries \cup ViewTexts |-> FilterTitles(query)]

FilterDummy(query) ==
    IF query \in DOMAIN Filtered THEN Filtered[query] ELSE FilterTitles(query)

\* the find without parseInt: a number is never === a string
FindDummyUnparsed(movieId) == <<>>

\* DUMMY_MOVIES.find(m => m.id === parseInt(movieId)); undefined is <<>>
FindDummy(movieId) ==
    LET p == ParseInt(movieId)
        Is(m) == ~p.nan /\ m.id = p.val
        found == SelectSeq(DUMMY_MOVIES, Is)
    IN  IF found = <<>> THEN <<>> ELSE <<Head(found)>>

\* movie || DUMMY_MOVIES[0]
FindOrFirst(movieId) ==
    IF FindDummy(movieId) # <<>> THEN FindDummy(movieId)[1] ELSE DUMMY_MOVIES[1]

---------------------------------------------------------------------------
(* The remote catalog *)

Outcomes == {"neterr", "status", "badjson", "noshape", "ok"}
\* neterr:  fetch() rejects                  status:  response.ok is false
\* badjson: response.json() rejects          noshape: JSON of another shape
\* ok:      the documented payload

\* the catalog answers 2xx only to a request that carries a key it issued
RemoteOutcomes(key) == IF key = KeyReal THEN Outcomes ELSE {"neterr", "status"}

\* an answer of the catalog: the outcome and, when it is ok, the results
Answers(key) ==
    {[outcome |-> o, payload |-> <<>>] : o \in RemoteOutcomes(key) \ {"ok"}}
    \cup {[outcome |-> o, payload |-> p] : o \in RemoteOutcomes(key) \cap {"ok"}, p \in LiveLists}

\* the answers to each key the client may hold
RemoteAnswers == [key \in ApiKeys |-> Answers(key)]

---------------------------------------------------------------------------
(* The three operations of the client.  Each runs synchronously up to its  *)
(* first await: Begin* gives either the value returned before any fetch    *)
(* (fetch = FALSE) or says that fetch() was called (fetch = TRUE).  After* *)
(* gives the value returned once the fetch has an outcome.                 *)

Returned(v) == [fetch |-> FALSE, value |-> v]
Fetching == [fetch |-> TRUE, value |-> Undefined]

BeginPopular(key) ==
    IF key = Placeholder THEN Returned(ListOf(DUMMY_MOVIES)) ELSE Fetching

\* a catch block that throws again
AfterPopularRethrows(outcome, payload) ==
    CASE outcome = "ok" -> ListOf(payload)
      [] outcome = "noshape" -> Undefined
      [] OTHER -> Rejected

AfterPopular(outcome, payload) ==
    CASE outcome = "ok" -> ListOf(payload)
      [] outcome = "noshape" -> Undefined
      [] OTHER -> ListOf(DUMMY_MOVIES)

\* the guard !query in place of !query.trim()
BeginSearchUntrimmed(key, query) ==
    IF query = <<>> THEN Returned(ListOf(<<>>))
    ELSE IF key = Placeholder THEN Returned(ListOf(FilterDummy(query)))
    ELSE Fetching

BeginSearch(key, query) ==
    IF Trim(query) = <<>> THEN Returned(ListOf(<<>>))
    ELSE IF key = Placeholder THEN Returned(ListOf(FilterDummy(query)))
    ELSE Fetching

AfterSearch(query, outcome, payload) ==
    CASE outcome = "ok" -> ListOf(payload)
      [] outcome = "noshape" -> Undefined
      [] OTHER -> ListOf(FilterDummy(query))

\* the operation without the check of the key
BeginDetailsUnchecked(key, movieId) == Fetching

BeginDetails(key, movieId) ==
    IF key = Placeholder THEN Returned(DetailOf(FindOrFirst(movieId))) ELSE Fetching

\* a catch block that throws again
AfterDetailsRethrows(movieId, outcome) ==
    CASE outcome = "ok" -> DetailOf(LiveMovie)
      [] outcome = "noshape" -> Malformed
      [] OTHER -> Rejected

AfterDetails(movieId, outcome) ==
    CASE outcome = "ok" -> DetailOf(LiveMovie)
      [] outcome = "noshape" -> Malformed
      [] OTHER -> DetailOf(FindOrFirst(movieId))

Begin(key, op, arg) ==
    CASE op = "popular" -> BeginPopular(key)
      [] op = "search" -> BeginSearch(key, arg)
      [] op = "details" -> BeginDetails(key, arg)

After(op, arg, outcome, payload) ==
    CASE op = "popular" -> AfterPopular(outcome, payload)
      [] op = "search" -> AfterSearch(arg, outcome, payload)
      [] op = "details" -> AfterDetails(arg, outcome)

---------------------------------------------------------------------------
(* A call in flight *)

NoCall == [op |-> "none", arg |-> <<>>, owner |-> "none",
           fetched |-> FALSE, outcome |-> "none", value |-> Undefined]

NewCall(key, op, arg, owner) ==
    LET begun == Begin(key, op, arg)
    IN  [op |-> op, arg |-> arg, owner |-> owner,
         fetched |-> begun.fetch, value |-> begun.value]

Settlement(c, outcome, value) ==
    [op |-> c.op, arg |-> c.arg, owner |-> c.owner,
     fetched |-> c.fetched, outcome |-> outcome, value |-> value]

Without(calls, i) == SubSeq(calls, 1, i - 1) \o SubSeq(calls, i + 1, Len(calls))

\* a call that returned before any await resumes its caller in a microtask,
\* before any other event is handled
Urgent == \E i \in 1..Len(inflight) : ~inflight[i].fetched

\* the ways a call in flight comes back: at once with the value it returned
\* before any fetch, or with what it makes of an outcome of the fetch
Settlements(c) ==
    IF ~c.fetched THEN {Settlement(c, "none", c.value)}
    ELSE {Settlement(c, a.outcome, After(c.op, c.arg, a.outcome, a.payload)) :
            a \in RemoteAnswers[apiKey]}

CanSettle(c) == c.fetched => ~Urgent

---------------------------------------------------------------------------
(* Home.jsx: the List View *)

DebounceDelay == 500

NoError == "null"
PopularFailed == "Failed to load movies. Please try again later."
SearchFailed == "Failed to search movies. Please try again."

\* setTimeout gives a handle that no pending timeout has
NextTimeoutId ==
    LET used == {tm.id : tm \in timers} \cup {cleanupId}
    IN  CHOOSE id \in 1..(Cardinality(used) + 1) :
            id \notin used /\ \A other \in 1..(id - 1) : other \in used

\* a clearTimeout that clears nothing
ClearTimeoutNoop(ts, id) == ts

\* clearTimeout(id); id 0 stands for no cleanup function
ClearTimeout(ts, id) == {tm \in ts : tm.id # id}

\* a burst: n text changes, each following the one before by less than the
\* debounce delay.  timed and submitted count the search requests the
\* timeouts and the form submits have made since the first of them,
\* quietTimed and quietSubmitted those made since the last; at and q are the
\* time, counted from the last text change, and the query of the latest
\* request a timeout made
NoBurst == [n |-> 0, timed |-> 0, submitted |-> 0, quietTimed |-> 0, quietSubmitted |-> 0,
            at |-> 0, q |-> <<>>]

OpensBurst == burst.n = 0 \/ now >= DebounceDelay

Changed ==
    IF OpensBurst THEN [NoBurst EXCEPT !.n = 1]
    ELSE [burst EXCEPT !.n = @ + 1, !.quietTimed = 0, !.quietSubmitted = 0]

\* the pending timeouts on the clock of a new text change
Rebased(ts) == {[tm EXCEPT !.deadline = @ - now] : tm \in ts}

Searched(b, query, by) ==
    IF by = "timer"
    THEN [b EXCEPT !.timed = @ + 1, !.quietTimed = @ + 1, !.at = now, !.q = query]
    ELSE [b EXCEPT !.submitted = @ + 1, !.quietSubmitted = @ + 1]

\* a handler that makes the call twice
LoadPopularMoviesTwice(base) ==
    LET c == NewCall(apiKey, "popular", <<>>, "home")
    IN  /\ loading' = TRUE
        /\ error' = NoError
        /\ inflight' = Append(Append(inflight, c), c)
        /\ burst' = base

\* Home.jsx:74-78  loadPopularMovies up to its await; base is the history
\* the handler appends to
LoadPopularMovies(base) ==
    LET c == NewCall(apiKey, "popular", <<>>, "home")
    IN  /\ loading' = TRUE
        /\ error' = NoError
        /\ inflight' = Append(inflight, c)
        /\ burst' = base

\* Home.jsx:91-96  handleSearch up to its await, for the searchQuery of the
\* render that created it
HandleSearch(query, by, base) ==
    LET c == NewCall(apiKey, "search", query, "home")
    IN  /\ loading' = TRUE
        /\ error' = NoError
        /\ isSearching' = TRUE
        /\ inflight' = Append(inflight, c)
        /\ burst' = Searched(base, query, by)

\* Home.jsx:53  if (searchQuery.trim())
ArmsTimer(text) == Trim(text) # <<>>

\* Home.jsx:55-57  setTimeout(() => handleSearch(), 500)
Timeout(id, text) == [id |-> id, deadline |-> DebounceDelay, query |-> text]

\* an effect that returns no cleanup
CleanupOfNone(text, id) == 0

\* a cleanup that clears the handle of the first timeout, whichever is pending
CleanupOfStale(text, id) == IF ArmsTimer(text) THEN 1 ELSE 0

\* Home.jsx:60  the cleanup the effect returns: the handle it clears
CleanupOf(text, id) == IF ArmsTimer(text) THEN id ELSE 0

\* the branch of the empty text without the test of isSearching
ReloadsAlways(text, searching) == ~ArmsTimer(text)

\* Home.jsx:63  if (isSearching), in the branch of the empty text
Reloads(text, searching) == ~ArmsTimer(text) /\ searching

\* first render committed: both effects run (Home.jsx:43-45, 51-69)
Mount ==
    /\ mounted = "no"
    /\ detail.mounted = "no"
    /\ mounted' = "yes"
    /\ timers' = IF ArmsTimer(searchQuery)
                 THEN timers \cup {Timeout(NextTimeoutId, searchQuery)}
                 ELSE timers
    /\ cleanupId' = CleanupOf(searchQuery, NextTimeoutId)
    /\ LoadPopularMovies(burst)
    /\ UNCHANGED <<apiKey, settled, movies, searchQuery, isSearching, now, detail, helper>>

\* Home.jsx:109-111 handleSearchChange (SearchBar.jsx:28-30 handleClear),
\* the render, the cleanup of the previous debounce effect and the effect
\* for the new text (Home.jsx:51-69)
ChangeText ==
    \E text \in ViewTexts :
        LET cleared == Rebased(ClearTimeout(timers, cleanupId))
        IN  /\ mounted = "yes"
            /\ ~Urgent
            /\ text # searchQuery
            /\ Changed.n <= MaxChanges
            /\ Reloads(text, isSearching) => Len(inflight) < MaxInflight
            /\ searchQuery' = text
            /\ timers' = IF ArmsTimer(text)
                         THEN cleared \cup {Timeout(NextTimeoutId, text)}
                         ELSE cleared
            /\ cleanupId' = CleanupOf(text, NextTimeoutId)
            /\ IF Reloads(text, isSearching)
               THEN /\ isSearching' = FALSE
                    /\ LoadPopularMovies(Changed)
               ELSE /\ burst' = Changed
                    /\ UNCHANGED <<isSearching, loading, error, inflight>>
            /\ now' = 0
            /\ UNCHANGED <<apiKey, settled, mounted, movies, detail, helper>>

\* Home.jsx:55-57  a timeout expires and runs the handleSearch it closed over.
\* A timeout that no cleanup cleared expires whether Home is mounted or not:
\* its handleSearch makes the call, and React drops the state updates of a
\* component that is gone
TimerFires ==
    \E tm \in timers :
        /\ ~Urgent
        /\ now >= tm.deadline
        /\ burst.timed + burst.submitted < MaxSearches
        /\ Len(inflight) < MaxInflight
        /\ timers' = timers \ {tm}
        /\ IF mounted = "yes"
           THEN HandleSearch(tm.query, "timer", burst)
           ELSE /\ inflight' = Append(inflight, NewCall(apiKey, "search", tm.query, "home"))
                /\ burst' = Searched(burst, tm.query, "timer")
                /\ UNCHANGED <<loading, error, isSearching>>
        /\ UNCHANGED <<apiKey, settled, mounted, movies, searchQuery, cleanupId, now, detail, helper>>

\* SearchBar.jsx:20-25 handleSubmit, Home.jsx:136 onSearch={handleSearch}
Submit ==
    /\ mounted = "yes"
    /\ ~Urgent
    /\ burst.timed + burst.submitted < MaxSearches
    /\ Len(inflight) < MaxInflight
    /\ HandleSearch(searchQuery, "submit", burst)
    /\ UNCHANGED <<apiKey, settled, mounted, movies, searchQuery, timers, cleanupId, now, detail, helper>>

\* a handler with no finally: loading stays as it is
FinallyKeepsLoading(isLoading) == isLoading

\* Home.jsx:83-85, 101-103, MovieDetail.jsx:54-56  finally { setLoading(false) }
FinallyLoading(isLoading) == FALSE

\* a write that only the call issued last may make
SetMoviesOfNewest(calls, i, data) == IF i = Len(calls) THEN data ELSE movies

\* Home.jsx:79, 97  setMovies(data), whichever of the calls in flight resumes
SetMovies(calls, i, data) == data

\* Home.jsx:78-85, 96-103  the awaited call comes back to Home
HomeSettles ==
    \E i \in 1..Len(inflight) :
        /\ inflight[i].owner = "home"
        /\ CanSettle(inflight[i])
        /\ inflight' = Without(inflight, i)
        /\ \E s \in Settlements(inflight[i]) :
            IF mounted = "yes"
            THEN /\ loading' = FinallyLoading(loading)
                 /\ IF s.value = Rejected
                    THEN /\ error' = (IF inflight[i].op = "popular" THEN PopularFailed ELSE SearchFailed)
                         /\ UNCHANGED movies
                    ELSE /\ movies' = SetMovies(inflight, i, s.value)
                         /\ UNCHANGED error
            ELSE UNCHANGED <<movies, loading, error>>
        /\ UNCHANGED <<apiKey, settled, mounted, searchQuery, isSearching, timers, cleanupId, now, burst,
                       detail, helper>>

\* an unmount that runs no cleanup
UnmountKeepsTimer ==
    /\ mounted = "yes"
    /\ ~Urgent
    /\ mounted' = "gone"
    /\ cleanupId' = 0
    /\ UNCHANGED <<client, movies, searchQuery, loading, error, isSearching, timers, now, burst, detail, helper>>

\* the cleanup of the debounce effect on unmount (Home.jsx:60)
Unmount ==
    /\ mounted = "yes"
    /\ ~Urgent
    /\ mounted' = "gone"
    /\ timers' = ClearTimeout(timers, cleanupId)
    /\ cleanupId' = 0
    /\ UNCHANGED <<client, movies, searchQuery, loading, error, isSearching, now, burst, detail, helper>>

\* 100ms pass; a timeout that is due runs first.  Only the timeouts and the
\* gaps between text changes depend on the clock, so it stops once the last
\* text change is a debounce delay old, and runs after Home is gone only
\* for a timeout that is still pending.
Tick ==
    /\ mounted # "no"
    /\ mounted = "yes" => ~OpensBurst
    /\ mounted = "gone" => timers # {}
    /\ ~Urgent
    /\ \A tm \in timers : now < tm.deadline
    /\ now' = now + 100
    /\ UNCHANGED <<client, mounted, movies, searchQuery, loading, error, isSearching, timers, cleanupId, burst,
                   detail, helper>>

\* Home.jsx:160-182  what Home renders below the section title
BannerShown(err) == err # NoError

SpinnerShown(isLoading) == isLoading

\* a grid rendered beside the spinner
GridShownAlways(isLoading) == TRUE

GridShown(isLoading) == ~isLoading

---------------------------------------------------------------------------
(* MovieDetail.jsx: the Detail View.  Each view is entered directly on its *)
(* route; the route id changes while the Detail View stays mounted.        *)

MaxRouteChanges == 2    \* changes of the route id

DetailFailed == "Failed to load movie details. Please try again."

NoMovie == [kind |-> "null", items |-> <<>>]             \* useState(null)

RouteIds == {<<"1">>, <<"6">>, <<"7">>}

\* an effect with no dependency runs on entry only
DetailEffectRunsOnce(prev, id) == FALSE

\* MovieDetail.jsx:40  [id]: the effect runs again when the id is another
DetailEffectRuns(prev, id) == prev # id

\* a write that only the call for the current route id may make
StoreDetailIfCurrent(c, data) == IF c.arg = detail.id THEN data ELSE detail.movie

\* MovieDetail.jsx:50  setMovie(data), whichever id the call was made for
StoreDetail(c, data) == data

\* MovieDetail.jsx:45-49  loadMovieDetails up to its await, in the render d
LoadMovieDetails(d) ==
    /\ detail' = [d EXCEPT !.loading = TRUE, !.error = NoError]
    /\ inflight' = Append(inflight, NewCall(apiKey, "details", d.id, "detail"))

\* first render committed on the route /movie/:id: the effect runs
DetailMount ==
    \E id \in RouteIds :
        /\ mounted = "no"
        /\ detail.mounted = "no"
        /\ LoadMovieDetails([detail EXCEPT !.mounted = "yes", !.id = id])
        /\ UNCHANGED <<apiKey, settled, view, helper>>

\* the route id changes: useParams gives the new id and the effect runs
ChangeRoute ==
    \E id \in RouteIds :
        /\ detail.mounted = "yes"
        /\ ~Urgent
        /\ id # detail.id
        /\ detail.changes < MaxRouteChanges
        /\ Len(inflight) < MaxInflight
        /\ IF DetailEffectRuns(detail.id, id)
           THEN LoadMovieDetails([detail EXCEPT !.id = id, !.changes = @ + 1])
           ELSE /\ detail' = [detail EXCEPT !.id = id, !.changes = @ + 1]
                /\ UNCHANGED inflight
        /\ UNCHANGED <<apiKey, settled, view, helper>>

\* MovieDetail.jsx:49-56  the awaited call comes back to MovieDetail
DetailSettles ==
    \E i \in 1..Len(inflight) :
        /\ inflight[i].owner = "detail"
        /\ CanSettle(inflight[i])
        /\ inflight' = Without(inflight, i)
        /\ \E s \in Settlements(inflight[i]) :
            IF detail.mounted = "yes"
            THEN IF s.value = Rejected
                 THEN detail' = [detail EXCEPT !.error = DetailFailed,
                                               !.loading = FinallyLoading(detail.loading)]
                 ELSE detail' = [detail EXCEPT !.movie = StoreDetail(inflight[i], s.value),
                                               !.loading = FinallyLoading(detail.loading)]
            ELSE UNCHANGED detail
        /\ UNCHANGED <<apiKey, settled, view, helper>>

\* MovieDetail.jsx:62-64  handleBack: the route is left
DetailUnmount ==
    /\ detail.mounted = "yes"
    /\ ~Urgent
    /\ detail' = [detail EXCEPT !.mounted = "gone"]
    /\ UNCHANGED <<client, view, helper>>

InitDetail ==
    detail = [mounted |-> "no", id |-> <<>>, movie |-> NoMovie, loading |-> TRUE,
              error |-> NoError, changes |-> 0]

NextDetail == DetailMount \/ ChangeRoute \/ DetailSettles \/ DetailUnmount

---------------------------------------------------------------------------
(* The application: one of the two views on its route *)

\* no helper is being called
NoHelper == [fn |-> "none", args |-> <<>>, done |-> FALSE, result |-> <<>>]

InitView ==
    /\ mounted = "no"
    /\ movies = ListOf(<<>>)
    /\ searchQuery = <<>>
    /\ loading = TRUE
    /\ error = NoError
    /\ isSearching = FALSE
    /\ timers = {}
    /\ cleanupId = 0
    /\ now = 0
    /\ burst = NoBurst

Init ==
    /\ apiKey \in ApiKeys
    /\ inflight = <<>>
    /\ settled = NoCall
    /\ InitView
    /\ InitDetail
    /\ helper = NoHelper

Next ==
    \/ Mount \/ ChangeText \/ TimerFires \/ Submit \/ HomeSettles \/ Unmount \/ Tick
    \/ DetailMount \/ ChangeRoute \/ DetailSettles \/ DetailUnmount

SpecDetail == Init /\ [][NextDetail]_vars

Spec == Init /\ [][Next]_vars

\* every call in flight comes back to the view that made it
SettlesFairly == WF_vars(HomeSettles) /\ WF_vars(DetailSettles)

SpecLive == Init /\ [][Next]_vars /\ SettlesFairly

---------------------------------------------------------------------------
(* The client called directly, one call at a time *)

Call(op, arg) ==
    /\ inflight = <<>>
    /\ settled = NoCall
    /\ inflight' = <<NewCall(apiKey, op, arg, "caller")>>
    /\ UNCHANGED <<apiKey, settled, view, detail, helper>>

CallPopular == Call("popular", <<>>)

CallSearch == \E q \in Queries : Call("search", q)

CallDetails == \E x \in MovieIds : Call("details", x)

Returns ==
    \E i \in 1..Len(inflight) : \E s \in Settlements(inflight[i]) :
        /\ CanSettle(inflight[i])
        /\ inflight[i].owner = "caller"
        /\ inflight' = Without(inflight, i)
        /\ settled' = s
        /\ UNCHANGED <<apiKey, view, detail, helper>>

NextClient == CallPopular \/ CallSearch \/ CallDetails \/ Returns

SpecClient == Init /\ [][NextClient]_vars

---------------------------------------------------------------------------
(* api.js: the formatting helpers getImageUrl and formatRating *)

MaxPathLen == 2         \* paths typed from PathAlphabet
MaxRating == 2          \* ratings from -MaxRating to MaxRating

\* a number is counted in fortieths: tenths and eighths are among them
Fortieths == 40

JsUndefined == [type |-> "undefined", chars |-> <<>>, num |-> 0]
JsNull == [type |-> "null", chars |-> <<>>, num |-> 0]
JsNaN == [type |-> "nan", chars |-> <<>>, num |-> 0]
Str(chars) == [type |-> "string", chars |-> chars, num |-> 0]
Num(k) == [type |-> "number", chars |-> <<>>, num |-> k]

\* !v
Falsy(v) ==
    \/ v.type \in {"undefined", "null", "nan"}
    \/ v.type = "string" /\ v.chars = <<>>
    \/ v.type = "number" /\ v.num = 0

\* ${v} in a template literal
TemplateText(v) ==
    CASE v.type = "string" -> v.chars
      [] v.type = "null" -> <<"n","u","l","l">>
      [] v.type = "undefined" -> <<"u","n","d","e","f","i","n","e","d">>

IMAGE_BASE_URL == <<"https://image.tmdb.org/t/p">>
PlaceholderUrl == <<"https://via.placeholder.com/500x750?text=No+Image">>
DefaultSize == Str(<<"w","5","0","0">>)

KnownSizes == {Str(<<"w","2","0","0">>), Str(<<"w","5","0","0">>),
               Str(<<"o","r","i","g","i","n","a","l">>)}

\* a helper that replaces a size it does not know
GetImageUrlValidated(path, size) ==
    LET given == IF size = JsUndefined \/ size \notin KnownSizes THEN DefaultSize ELSE size
    IN  IF Falsy(path) THEN PlaceholderUrl
        ELSE IMAGE_BASE_URL \o <<"/">> \o TemplateText(given) \o TemplateText(path)

\* api.js:85-88  getImageUrl = (path, size = 'w500') => ...
GetImageUrl(path, size) ==
    LET given == IF size = JsUndefined THEN DefaultSize ELSE size
    IN  IF Falsy(path) THEN PlaceholderUrl
        ELSE IMAGE_BASE_URL \o <<"/">> \o TemplateText(given) \o TemplateText(path)

Abs(k) == IF k < 0 THEN -k ELSE k

RECURSIVE DecString(_)
DecString(n) ==
    IF n < 10 THEN <<DecDigits[n + 1]>>
    ELSE DecString(n \div 10) \o <<DecDigits[(n % 10) + 1]>>

\* Number.prototype.toFixed(1) of k fortieths: the sign, then the tenths n
\* nearest to the magnitude, the larger n of two that are as near
ToFixed1(k) ==
    LET n == (10 * Abs(k) + Fortieths \div 2) \div Fortieths
    IN  (IF k < 0 THEN <<"-">> ELSE <<>>)
        \o DecString(n \div 10) \o <<".">> \o <<DecDigits[(n % 10) + 1]>>

NotAvailable == <<"N","/","A">>

\* the helper with a test for null, undefined and NaN in place of !rating
FormatRatingOfZero(rating) ==
    IF rating.type \in {"undefined", "null", "nan"} THEN NotAvailable ELSE ToFixed1(rating.num)

\* api.js:227-230  formatRating
FormatRating(rating) ==
    IF Falsy(rating) THEN NotAvailable ELSE ToFixed1(rating.num)

PathAlphabet == {"/", "a", "."}
SamplePaths == {<<"/","a","b","c",".","j","p","g">>}
Paths == {JsUndefined, JsNull}
            \cup {Str(p) : p \in SeqsUpTo(PathAlphabet, MaxPathLen) \cup SamplePaths}
Sizes == KnownSizes \cup {JsUndefined, JsNull, Str(<<>>), Str(<<"h","u","g","e">>)}

\* the numbers whose nearest double decides toFixed(1) as the number itself
\* does: the tenths, and the eighths, which are doubles
Exact(k) == Abs(k) % 4 = 0 \/ Abs(k) % 5 = 0
SampleRatings == {348, 330, 335, 400}          \* 8.7, 8.25, 8.375, 10
Ratings == {JsUndefined, JsNull, JsNaN}
            \cup {Num(k) : k \in {j \in (-Fortieths * MaxRating)..(Fortieths * MaxRating) : Exact(j)}
                                \cup SampleRatings}

HelperCall(fn, args) == [fn |-> fn, args |-> args, done |-> FALSE, result |-> <<>>]

HelperCalls ==
    {HelperCall("getImageUrl", <<p, z>>) : p \in Paths, z \in Sizes}
    \cup {HelperCall("formatRating", <<r>>) : r \in Ratings}

GetImageUrlReturns ==
    /\ helper.fn = "getImageUrl"
    /\ ~helper.done
    /\ helper' = [helper EXCEPT !.done = TRUE,
                                 !.result = GetImageUrl(helper.args[1], helper.args[2])]
    /\ UNCHANGED <<client, view, detail>>

FormatRatingReturns ==
    /\ helper.fn = "formatRating"
    /\ ~helper.done
    /\ helper' = [helper EXCEPT !.done = TRUE, !.result = FormatRating(helper.args[1])]
    /\ UNCHANGED <<client, view, detail>>

InitFormat ==
    /\ apiKey = Placeholder
    /\ inflight = <<>>
    /\ settled = NoCall
    /\ InitView
    /\ InitDetail
    /\ helper \in HelperCalls

NextFormat == GetImageUrlReturns \/ FormatRatingReturns

SpecFormat == InitFormat /\ [][NextFormat]_vars

---------------------------------------------------------------------------
(* Properties of the catalog client *)

IsBlank(q) == \A i \in 1..Len(q) : q[i] \in Whitespace

\* title contains q, letters compared without regard to case
ContainsIgnoringCase(title, q) ==
    \E k \in 0..(Len(Chars(title)) - Len(q)) :
        \A j \in 1..Len(q) : ToLowerChar(Chars(title)[k + j]) = ToLowerChar(q[j])

Dummies == {DUMMY_MOVIES[k] : k \in 1..Len(DUMMY_MOVIES)}

\* items are exactly the fallback records whose title contains q, in the
\* order of the dataset
IsTitleMatches(items, q) ==
    /\ \A i \in 1..Len(items) : items[i] \in Dummies
    /\ \A i, j \in 1..Len(items) : i < j => items[i].id < items[j].id
    /\ \A m \in Dummies :
        (\E i \in 1..Len(items) : items[i] = m) <=> ContainsIgnoringCase(m.title, q)

\* r is the fallback record with the id x parses to, or the first record
IsFallbackDetail(r, x) ==
    /\ r \in Dummies
    /\ IF \E m \in Dummies : ~ParseInt(x).nan /\ m.id = ParseInt(x).val
       THEN r.id = ParseInt(x).val
       ELSE r = DUMMY_MOVIES[1]

Failures == {"neterr", "status", "badjson"}

\* the call that returned ran in fallback mode
FallbackMode == apiKey = Placeholder \/ (settled.fetched /\ settled.outcome \in Failures)

\* C1: search(q) for an empty or whitespace-only q makes no fetch and
\* resolves to the empty list, whatever the API key
BlankSearchIsEmpty ==
    /\ \A i \in 1..Len(inflight) :
        inflight[i].op = "search" /\ IsBlank(inflight[i].arg) => ~inflight[i].fetched
    /\ settled.op = "search" /\ IsBlank(settled.arg) =>
        ~settled.fetched /\ settled.value = ListOf(<<>>)

BlankSearchReturned ==
    /\ apiKey = KeyReal
    /\ settled.op = "search"
    /\ settled.arg = <<" ", " ">>
    /\ settled.value = ListOf(<<>>)

\* C2 as claimed: in fallback mode search(q) returns, for every non-empty q,
\* exactly the fallback records whose title contains q
NonEmptySearchFallsBack ==
    settled.op = "search" /\ settled.arg # <<>> /\ FallbackMode =>
        settled.value.kind = "list" /\ IsTitleMatches(settled.value.items, settled.arg)

\* C2 amended: in fallback mode search(q) returns, for every q that is
\* neither empty nor only white space, exactly the fallback records whose
\* title contains q without regard to case, in the order of the dataset;
\* "inception" gives the record titled Inception alone
NonBlankSearchFallsBack ==
    settled.op = "search" /\ ~IsBlank(settled.arg) /\ FallbackMode =>
        /\ settled.value.kind = "list"
        /\ IsTitleMatches(settled.value.items, settled.arg)
        /\ settled.arg = <<"i","n","c","e","p","t","i","o","n">> =>
            settled.value.items = <<DUMMY_MOVIES[6]>>

InceptionFound ==
    /\ settled.op = "search"
    /\ settled.arg = <<"I","N","C","E","P","T","I","O","N">>
    /\ settled.outcome = "status"
    /\ settled.value = ListOf(<<DUMMY_MOVIES[6]>>)

\* C3: in fallback mode getById(x) returns the fallback record whose id is
\* parseInt(x) when there is one and the first fallback record otherwise,
\* never anything else
DetailFallsBack ==
    settled.op = "details" /\ FallbackMode =>
        /\ settled.value.kind = "detail"
        /\ IsFallbackDetail(settled.value.items[1], settled.arg)
        /\ settled.arg = <<"6">> => settled.value.items[1].title = "Inception"
        /\ settled.arg = <<"7">> => settled.value.items[1].title = "The Shawshank Redemption"

DetailDefaulted ==
    /\ settled.op = "details"
    /\ settled.arg = <<"7">>
    /\ settled.outcome = "neterr"
    /\ settled.value = DetailOf(DUMMY_MOVIES[1])

NoCredential == {Placeholder, KeyUnset}

\* C4: listPopular does not reject: on a transport error, an HTTP status
\* that is no success or a missing credential it resolves to the fallback
\* dataset of 6 records
PopularFallsBack ==
    /\ settled.op = "popular" => settled.value # Rejected
    /\ settled.op = "popular"
         /\ (apiKey \in NoCredential \/ settled.outcome \in {"neterr", "status"}) =>
        /\ settled.value = ListOf(DUMMY_MOVIES)
        /\ Len(settled.value.items) = 6

PopularFellBack ==
    /\ apiKey = KeyReal
    /\ settled.op = "popular"
    /\ settled.outcome = "status"
    /\ settled.value = ListOf(DUMMY_MOVIES)

\* C5 as claimed: when Home is entered with no credential configured, no
\* fetch is made and, once loading is over, the 6 fallback movies are shown
InitialLoadIsOffline ==
    mounted = "yes" /\ apiKey \in NoCredential /\ burst = NoBurst =>
        /\ \A i \in 1..Len(inflight) : ~inflight[i].fetched
        /\ ~loading => movies = ListOf(DUMMY_MOVIES) /\ Len(movies.items) = 6

\* C6: with the placeholder key no operation makes a fetch, and each
\* returns its fallback result
PlaceholderNeverFetches ==
    apiKey = Placeholder =>
        /\ \A i \in 1..Len(inflight) : ~inflight[i].fetched
        /\ settled.op # "none" => ~settled.fetched /\ settled.outcome = "none"
        /\ settled.op = "popular" => settled.value = ListOf(DUMMY_MOVIES)
        /\ settled.op = "details" =>
            settled.value.kind = "detail"
            /\ IsFallbackDetail(settled.value.items[1], settled.arg)
        /\ settled.op = "search" =>
            settled.value.kind = "list"
            /\ IF IsBlank(settled.arg) THEN settled.value.items = <<>>
               ELSE IsTitleMatches(settled.value.items, settled.arg)

PlaceholderDetail ==
    /\ apiKey = Placeholder
    /\ settled.op = "details"
    /\ settled.arg = <<"0","x","6">>
    /\ settled.value = DetailOf(DUMMY_MOVIES[6])

\* C7 as claimed: whatever goes wrong with the fetch (network failure, HTTP
\* error status, malformed payload), each operation resolves with its
\* fallback result
EveryFailureFallsBack ==
    settled.fetched /\ settled.outcome \in Failures \cup {"noshape"} =>
        /\ settled.value # Rejected
        /\ settled.op = "popular" => settled.value = ListOf(DUMMY_MOVIES)
        /\ settled.op = "search" =>
            settled.value.kind = "list"
            /\ IsTitleMatches(settled.value.items, settled.arg)
        /\ settled.op = "details" =>
            settled.value.kind = "detail"
            /\ IsFallbackDetail(settled.value.items[1], settled.arg)

---------------------------------------------------------------------------
(* Properties of the List View *)

\* C8: in a burst of text changes without a form submit whose last text is
\* not blank, the only search request is the one made 500ms after the last
\* change with the last text; until then exactly one timeout is pending,
\* due at that time, for that text
DebounceOneSearch ==
    mounted = "yes" /\ burst.n >= 1 /\ burst.submitted = 0 /\ ~IsBlank(searchQuery) =>
        \/ /\ burst.timed = 0
           /\ \E tm \in timers :
                timers = {tm} /\ tm.deadline = 500 /\ tm.query = searchQuery
           /\ now <= 500
        \/ /\ burst.timed = 1
           /\ timers = {}
           /\ burst.at = 500
           /\ burst.q = searchQuery

ThreeKeystrokesOneSearch ==
    /\ burst.n = 3
    /\ burst.submitted = 0
    /\ burst.timed = 1
    /\ burst.at = 500
    /\ burst.q = <<"t","h","e">>
    /\ searchQuery = <<"t","h","e">>
    /\ timers = {}

\* C9 as claimed: at most one search request is made in a quiet period of
\* the search text
OneSearchPerQuietPeriod == burst.quietTimed + burst.quietSubmitted <= 1

\* C9 amended: the debounce timeouts make at most one search request in a
\* quiet period of the search text; the requests of form submits come on top
OneTimedSearchPerQuietPeriod == burst.quietTimed <= 1

SubmitAndTimeoutSearched ==
    /\ burst.quietTimed = 1
    /\ burst.quietSubmitted = 1
    /\ ~IsBlank(searchQuery)

\* C10: a text change to a blank text clears the pending timeout; in search
\* mode it makes exactly one listPopular call and leaves search mode,
\* otherwise it makes no request
ClearingStep ==
    /\ mounted = "yes"
    /\ searchQuery' # searchQuery
    /\ IsBlank(searchQuery')

ClearingReloadsOnce ==
    [][ClearingStep =>
          /\ timers' = {}
          /\ IF isSearching
             THEN /\ ~isSearching'
                  /\ Len(inflight') = Len(inflight) + 1
                  /\ SubSeq(inflight', 1, Len(inflight)) = inflight
                  /\ inflight'[Len(inflight')].op = "popular"
             ELSE /\ inflight' = inflight
                  /\ ~isSearching']_vars

ClearedAfterSearch ==
    /\ mounted = "yes"
    /\ IsBlank(searchQuery)
    /\ burst.n >= 2
    /\ burst.submitted = 1
    /\ burst.quietSubmitted = 0
    /\ ~isSearching
    /\ timers = {}
    /\ loading
    /\ Len(inflight) = 2
    /\ inflight[1].op = "search"
    /\ inflight[2].op = "popular"

---------------------------------------------------------------------------
(* Properties of the views and their requests *)

\* the step is call i of Home resuming it while it is mounted
HomeResumed(i) ==
    /\ mounted = "yes"
    /\ Len(inflight') < Len(inflight)
    /\ inflight[i].owner = "home"
    /\ inflight' = Without(inflight, i)

\* v is what the call c resolves or rejects with for some answer of the
\* catalog: for one that is no failure, or for a failure
IsResultOf(v, c) ==
    IF ~c.fetched THEN v = c.value
    ELSE \/ \E a \in RemoteAnswers[apiKey] :
                a.outcome \notin Failures /\ v = After(c.op, c.arg, a.outcome, a.payload)
         \/ \E a \in RemoteAnswers[apiKey] :
                a.outcome \in Failures /\ v = After(c.op, c.arg, a.outcome, a.payload)

\* C11: no request of Home is cancelled or guarded: whichever call in flight
\* resumes Home, also one issued before another that has already settled,
\* its result becomes movies; so movies ends as the result of the call that
\* settles last
LastToSettleWins ==
    [][\A i \in 1..Len(inflight) :
          HomeResumed(i) => ~loading' /\ IsResultOf(movies', inflight[i])]_vars

EarlierSearchWon ==
    /\ apiKey = KeyReal
    /\ mounted = "yes"
    /\ IsBlank(searchQuery)
    /\ ~isSearching
    /\ inflight = <<>>
    /\ movies = ListOf(<<DUMMY_MOVIES[1], DUMMY_MOVIES[2], DUMMY_MOVIES[3]>>)

\* C12 as claimed: when a remote call fails, Home shows an error message and
\* uses the dummy data
FailureShowsError ==
    [][\A i \in 1..Len(inflight) :
          (/\ HomeResumed(i)
           /\ \E s \in Settlements(inflight[i]) :
                s.outcome \in Failures /\ movies' = s.value)
          => /\ BannerShown(error')
             /\ \A k \in 1..Len(movies'.items) : movies'.items[k] \in Dummies]_vars

FirstEntryLoadsPopular ==
    /\ mounted = "no" => loading /\ movies = ListOf(<<>>) /\ error = NoError
    /\ mounted = "yes" /\ burst = NoBurst =>
        \/ /\ loading
           /\ Len(inflight) = 1
           /\ inflight[1].op = "popular"
           /\ inflight[1].owner = "home"
           /\ error = NoError
        \/ /\ ~loading
           /\ inflight = <<>>
           /\ \/ error = NoError
                 /\ IsResultOf(movies, NewCall(apiKey, "popular", <<>>, "home"))
              \/ error = PopularFailed /\ movies = ListOf(<<>>)

PopularLoaded ==
    /\ apiKey = KeyReal
    /\ mounted = "yes"
    /\ burst = NoBurst
    /\ ~loading
    /\ inflight = <<>>
    /\ movies = ListOf(<<LiveMovie>>)
    /\ error = NoError

\* the step is call i of MovieDetail resuming it while it is mounted
DetailResumed(i) ==
    /\ detail.mounted = "yes"
    /\ Len(inflight') < Len(inflight)
    /\ inflight[i].owner = "detail"
    /\ inflight' = Without(inflight, i)

\* the step issues exactly one getById for the route id it leaves
IssuesGetById ==
    /\ Len(inflight') = Len(inflight) + 1
    /\ SubSeq(inflight', 1, Len(inflight)) = inflight
    /\ inflight'[Len(inflight')].op = "details"
    /\ inflight'[Len(inflight')].arg = detail'.id
    /\ detail'.loading
    /\ detail'.error = NoError

\* C15: the Detail View issues exactly one getById(id) on entry and one on
\* every change of the route id, and none otherwise; when a call settles its
\* result is stored and loading is cleared, and when it rejects the fixed
\* message is set and loading is cleared
DetailLoadsOncePerRoute ==
    [][/\ detail.mounted = "no" /\ detail'.mounted = "yes" => IssuesGetById
       /\ detail.mounted = "yes" /\ detail'.id # detail.id => IssuesGetById
       /\ detail.mounted # "no" /\ detail'.id = detail.id => Len(inflight') <= Len(inflight)
       /\ \A i \in 1..Len(inflight) :
            DetailResumed(i) =>
                /\ ~detail'.loading
                /\ \/ /\ IsResultOf(detail'.movie, inflight[i])
                      /\ detail'.movie # Rejected
                      /\ detail'.error = detail.error
                   \/ /\ IsResultOf(Rejected, inflight[i])
                      /\ detail'.error = DetailFailed
                      /\ detail'.movie = detail.movie]_vars

RouteChangedAndLoaded ==
    /\ apiKey = Placeholder
    /\ detail.mounted = "yes"
    /\ detail.changes = 1
    /\ detail.id = <<"6">>
    /\ ~detail.loading
    /\ inflight = <<>>
    /\ detail.movie = DetailOf(DUMMY_MOVIES[6])

\* C16: while Home is on the page, loading shows the spinner and neither
\* the grid nor the error banner; the banner is shown only when loading is
\* false and error is set
RenderRule ==
    mounted # "gone" =>
        /\ loading => SpinnerShown(loading) /\ ~GridShown(loading) /\ ~BannerShown(error)
        /\ BannerShown(error) => ~loading /\ error # NoError

SpinnerOverStaleMovies ==
    /\ mounted = "yes"
    /\ loading
    /\ movies = ListOf(DUMMY_MOVIES)
    /\ SpinnerShown(loading)
    /\ ~GridShown(loading)

\* C17 as claimed: while a call issued by Home is in flight, loading is true
InflightMeansLoading ==
    mounted = "yes" /\ (\E i \in 1..Len(inflight) : inflight[i].owner = "home") => loading

---------------------------------------------------------------------------
(* Properties of the formatting helpers *)

\* text is base, "/", token and path, one after the other
IsImageUrl(text, token, path) ==
    /\ Len(text) = 2 + Len(token) + Len(path)
    /\ text[1] = "https://image.tmdb.org/t/p"
    /\ text[2] = "/"
    /\ \A j \in 1..Len(token) : text[2 + j] = token[j]
    /\ \A j \in 1..Len(path) : text[2 + Len(token) + j] = path[j]

GotImageUrl == helper.fn = "getImageUrl" /\ helper.done

\* C18 as claimed: getImageUrl(path, size) is the placeholder URL when path
\* is absent and otherwise base, "/", size and path
ImageUrlOfPresentPath ==
    GotImageUrl /\ helper.args[2].type = "string" =>
        IF helper.args[1].type \in {"undefined", "null"}
        THEN helper.result = PlaceholderUrl
        ELSE IsImageUrl(helper.result, helper.args[2].chars, helper.args[1].chars)

\* C18 amended: getImageUrl(path, size) is the placeholder URL when path is
\* absent or the empty string, and otherwise base, "/", the size token as
\* given, whatever it is, and the path; "/abc.jpg" with "w500" gives
\* base + "/w500/abc.jpg"
ImageUrlOfNonEmptyPath ==
    GotImageUrl /\ helper.args[2].type = "string" =>
        /\ IF helper.args[1].type \in {"undefined", "null"} \/ helper.args[1].chars = <<>>
           THEN helper.result = PlaceholderUrl
           ELSE IsImageUrl(helper.result, helper.args[2].chars, helper.args[1].chars)
        /\ helper.args = <<Str(<<"/","a","b","c",".","j","p","g">>), Str(<<"w","5","0","0">>)>> =>
            helper.result = <<"https://image.tmdb.org/t/p", "/", "w","5","0","0",
                              "/","a","b","c",".","j","p","g">>

UnknownSizeResolved ==
    /\ GotImageUrl
    /\ helper.args = <<Str(<<"/","a">>), Str(<<"h","u","g","e">>)>>
    /\ helper.result = <<"https://image.tmdb.org/t/p", "/", "h","u","g","e", "/","a">>

\* text is an optional "-", digits, "." and one digit
IsOneDecimal(text) ==
    LET body == IF text # <<>> /\ Head(text) = "-" THEN Tail(text) ELSE text
    IN  /\ Len(body) >= 3
        /\ body[Len(body) - 1] = "."
        /\ \A j \in (1..Len(body)) \ {Len(body) - 1} :
                \E d \in 1..Len(DecDigits) : DecDigits[d] = body[j]

\* the number of tenths a text of that form stands for
TenthsOf(text) ==
    LET negative == Head(text) = "-"
        body == IF negative THEN Tail(text) ELSE text
        whole == DigitsToInt(SubSeq(body, 1, Len(body) - 2), DecDigits)
        tenths == 10 * whole + DigitValue(body[Len(body)], DecDigits)
    IN  IF negative THEN -tenths ELSE tenths

\* C19: formatRating gives "N/A" exactly when its input is absent or falsy,
\* 0 included; for every other number it gives the number rounded to one
\* decimal digit: a text with one digit after the point that is within half
\* a tenth of the number
RatingFormatted ==
    helper.fn = "formatRating" /\ helper.done =>
        LET rating == helper.args[1]
            absent == rating.type \in {"undefined", "null", "nan"}
                        \/ (rating.type = "number" /\ rating.num = 0)
        IN  /\ helper.result = <<"N","/","A">> <=> absent
            /\ ~absent =>
                /\ IsOneDecimal(helper.result)
                /\ Abs(4 * TenthsOf(helper.result) - rating.num) <= 2

QuarterRoundedUp ==
    /\ helper.fn = "formatRating"
    /\ helper.done
    /\ helper.args = <<Num(330)>>
    /\ helper.result = <<"8", ".", "3">>

---------------------------------------------------------------------------
(* Properties of the Detail View *)

\* C20: a call made for a route id that has been left is not cancelled:
\* when it settles its result is stored as the movie, while the route id
\* stays the new one; settling last, it leaves the view with the detail of
\* the id that was left
StaleDetailIsStored ==
    [][\A i \in 1..Len(inflight) :
          DetailResumed(i) /\ inflight[i].arg # detail.id =>
              /\ IsResultOf(detail'.movie, inflight[i])
              /\ detail'.id = detail.id
              /\ ~detail'.loading]_vars

ShowsLeftIdDetail ==
    /\ apiKey = KeyUnset
    /\ detail.mounted = "yes"
    /\ detail.changes = 1
    /\ detail.id = <<"1">>
    /\ inflight = <<>>
    /\ ~detail.loading
    /\ detail.movie = DetailOf(DUMMY_MOVIES[6])

---------------------------------------------------------------------------
(* Properties of the debounce timeout *)

\* C21: Home has at most one debounce timeout pending at any time: a change
\* of the search text clears the timeout of the change before it, so a
\* pending timeout is the one the latest change set, for the present text,
\* and the one the next cleanup clears
OnePendingTimeout ==
    /\ Cardinality(timers) <= 1
    /\ \A tm \in timers :
          /\ tm.query = searchQuery
          /\ tm.id = cleanupId
          /\ mounted = "yes"

ThirdKeystrokePending ==
    /\ mounted = "yes"
    /\ burst.n = 3
    /\ burst.timed + burst.submitted = 0
    /\ now > 0
    /\ \E tm \in timers : tm.query = searchQuery /\ now < tm.deadline

\* a step in which a debounce timeout makes its search request
TimeoutSearches == burst'.timed = burst.timed + 1

\* C22: the debounce timeout is cleared when Home unmounts and when the
\* search text is cleared, so none is pending then; no call is made once
\* Home is gone, and a timeout makes its search request only in mounted
\* Home, a full debounce delay after the latest text change, for the text
\* as it is then, which is not blank
ClearedTimeoutNeverSearches ==
    /\ [](mounted = "gone" \/ IsBlank(searchQuery) => timers = {})
    /\ [][/\ mounted = "gone" => Len(inflight') <= Len(inflight)
          /\ TimeoutSearches =>
                /\ mounted = "yes"
                /\ now >= DebounceDelay
                /\ ~IsBlank(searchQuery)
                /\ inflight'[Len(inflight')].arg = searchQuery]_vars

\* Home was unmounted with a timeout pending, less than the debounce delay
\* after the text change that set it
UnmountedWhilePending ==
    /\ mounted = "gone"
    /\ ~IsBlank(searchQuery)
    /\ burst.n >= 1
    /\ burst.timed + burst.submitted = 0
    /\ now < DebounceDelay
    /\ timers = {}

---------------------------------------------------------------------------
(* Properties of the flags of Home *)

\* C23: in mounted Home, with no debounce timeout pending and no request of
\* Home in flight, isSearching is true exactly if the trimmed search text
\* is not empty
SearchModeTracksText ==
    /\ mounted = "yes"
    /\ timers = {}
    /\ \A i \in 1..Len(inflight) : inflight[i].owner # "home"
    => (isSearching <=> ~IsBlank(searchQuery))

\* a step of the user, told by what it alone does: ChangeText gives another
\* text, Submit counts one more submitted search, ChangeRoute one more
\* change of route
UserInput ==
    \/ searchQuery' # searchQuery
    \/ burst'.submitted = burst.submitted + 1
    \/ detail'.changes = detail.changes + 1

\* the mounted view has no call of its own in flight
HomeIdle == \A i \in 1..Len(inflight) : inflight[i].owner # "home"

DetailIdle == \A i \in 1..Len(inflight) : inflight[i].owner # "detail"

\* neither mounted view shows its spinner
LoadingOff ==
    /\ (mounted = "yes" => ~loading)
    /\ (detail.mounted = "yes" => ~detail.loading)

=============================================================================
